---- MODULE Spec2Model ----
(***************************************************************************)
(* Two-level (FKS) perfect hashing as implemented in                       *)
(* src/shadFails/FixedSet.cpp: FixedSet::Initialize / Contains and the two *)
(* table levels PerfectHashTable (outer) and                               *)
(* PerfectHashFirstLevelHashTable (inner).                                 *)
(*                                                                         *)
(* One behaviour of the model is one run of main(): the input `data` is    *)
(* fixed by Init, Initialize runs step by step (every call of              *)
(* HashFactory::GetNextHash is a nondeterministic choice of a hash of the  *)
(* family), and after Initialize has returned OperateQueries calls         *)
(* Contains.                                                               *)
(***************************************************************************)
EXTENDS Integers, Sequences, FiniteSets

VARIABLES
    data,        \* main: the key vector handed to Initialize
    outer,       \* PerfectHashTable: the FixedSet base members of static_hash_table
    hashTable_,  \* PerfectHashTable::hashTable_: the vector of inner tables
    opc,         \* position inside the outer FixedSet::Initialize
    baskets,     \* local `baskets` of PerfectHashTable::TryFillingHashTable
    idx,         \* loop index i of the last for loop (1-based)
    ipc,         \* position inside the inner FixedSet::Initialize of hashTable_[idx]
    answer,      \* the last Contains call made by OperateQueries and what it returned
    modZero,     \* a `% inner_data_size_` has been evaluated with inner_data_size_ = 0
    assertFail,  \* an assert(...) of the program has failed
    retried      \* history: the running or last Initialize of each level had a failed attempt

vars == <<data, outer, hashTable_, opc, baskets, idx, ipc, answer, modZero, assertFail,
          retried>>

----------------------------------------------------------------------------
(* Bounds of the model *)

MaxLen == 5          \* longest input vector
MaxKey == 3          \* largest key
NegKeys == 1         \* keys range over -NegKeys .. MaxKey
MaxMultiplier == 1   \* multipliers drawn from 0 .. MaxMultiplier
MaxAdder == 0        \* adders drawn from 0 .. MaxAdder

Keys == (0 - NegKeys)..MaxKey

\* the inputs and queries of the documented scenarios
ScenarioInputs == {<<1, 2, 3>>, <<>>, <<5, 5, 5>>}
ScenarioQueries == {1, 4, 2, 10, 0, -5, 100, 5, 6}

Inputs == UNION {[1..n -> Keys] : n \in 0..MaxLen} \cup ScenarioInputs
Queries == (0 - NegKeys - 1)..(MaxKey + 1) \cup ScenarioQueries

----------------------------------------------------------------------------
(* Hash *)

kPrimeNumber == 2000000011
kMemoryRepletionRatio == 4
SizeTBits == 64      \* width of size_t (LP64)

\* (a + b) mod kPrimeNumber for a, b in 0 .. kPrimeNumber - 1, without leaving 32 bits
AddModPrime(a, b) == IF a >= kPrimeNumber - b THEN a - (kPrimeNumber - b) ELSE a + b

RECURSIVE PowTwoModPrime(_)
PowTwoModPrime(b) ==
    IF b = 0 THEN 1
    ELSE LET half == PowTwoModPrime(b - 1) IN AddModPrime(half, half)

\* 2^SizeTBits mod kPrimeNumber
SizeTWrapModPrime == PowTwoModPrime(SizeTBits)

HashFamily == [multiplier_value : 0..MaxMultiplier, adder_valuer : 0..MaxAdder]

DefaultHash == [multiplier_value |-> 0, adder_valuer |-> 0]

\* Hash::operator(): the int is converted to size_t, the product and the sum
\* are taken modulo 2^SizeTBits, and the result is reduced modulo the prime.
\* With |value * multiplier + adder| < 2^SizeTBits the wrapped value is x
\* itself when x >= 0 and 2^SizeTBits + x when x < 0.
HashApply(h, value) ==
    LET x == value * h.multiplier_value + h.adder_valuer
    IN  IF x >= 0 THEN x % kPrimeNumber
        ELSE AddModPrime(SizeTWrapModPrime, x % kPrimeNumber)

\* FixedSet::CalcInnerPosition; -1 stands for the undefined result of `% 0`
CalcInnerPosition(h, value, size) ==
    IF size = 0 THEN -1 ELSE HashApply(h, value) % size

\* FixedSet::CalcDistribution: baskets[p] counts the values at position p
\* (positions are 0-based, the sequence is 1-based)
RECURSIVE CountInto(_, _, _, _)
CountInto(counts, values, h, size) ==
    IF values = <<>> THEN counts
    ELSE LET p == CalcInnerPosition(h, Head(values), size) + 1
         IN  CountInto([counts EXCEPT ![p] = @ + 1], Tail(values), h, size)

CalcDistribution(values, h, size) ==
    CountInto([p \in 1..size |-> 0], values, h, size)

\* CalcDistribution evaluates CalcInnerPosition once per value
DistributionModZero(values, size) == values # <<>> /\ size = 0

----------------------------------------------------------------------------
(* Optional<T> and the inner table *)

\* a value-initialized Optional<int> (vector::resize): assigned_ = false and a
\* zeroed value_, which no code reads while assigned_ is false
EmptySlot == [assigned_ |-> FALSE, value_ |-> 0]

\* Optional::operator=
Assign(value) == [assigned_ |-> TRUE, value_ |-> value]

\* a default-constructed PerfectHashFirstLevelHashTable
DefaultInner ==
    [inner_data_size_ |-> 0, is_initialized_ |-> FALSE, hash_ |-> DefaultHash,
     inner_data_ |-> <<>>]

\* PerfectHashFirstLevelHashTable::InitBufferAndSize
InnerSize(size) == size * size

\* vector::resize keeps the elements it has and appends default ones
Resize(buffer, size) ==
    [p \in 1..size |-> IF p <= Len(buffer) THEN buffer[p] ELSE EmptySlot]

InnerNoCollision_Never(distribution) == TRUE

InnerNoCollision_OffByOne(distribution) ==
    \A p \in 1..Len(distribution) : ~(distribution[p] > 2)

\* PerfectHashFirstLevelHashTable::TryFillingHashTable, the first loop
InnerNoCollision(distribution) ==
    \A p \in 1..Len(distribution) : ~(distribution[p] > 1)

\* PerfectHashFirstLevelHashTable::TryFillingHashTable, the second loop
RECURSIVE PlaceAll(_, _, _, _)
PlaceAll(buffer, values, h, size) ==
    IF values = <<>> THEN buffer
    ELSE LET p == CalcInnerPosition(h, Head(values), size) + 1
         IN  PlaceAll([buffer EXCEPT ![p] = Assign(Head(values))],
                      Tail(values), h, size)

InnerSucceeded_LeavesEmptyUninitialized(t, values) ==
    [t EXCEPT !.inner_data_ = PlaceAll(@, values, t.hash_, t.inner_data_size_),
              !.is_initialized_ = (values # <<>>)]

InnerSucceeded_Redraws(t, values) ==
    [t EXCEPT !.inner_data_ = PlaceAll(@, values, t.hash_, t.inner_data_size_),
              !.hash_ = DefaultHash,
              !.is_initialized_ = TRUE]

\* an inner table after its TryFillingHashTable returned true: the keys are
\* placed, the while loop of Initialize ends and is_initialized_ is set
InnerSucceeded(t, values) ==
    [t EXCEPT !.inner_data_ = PlaceAll(@, values, t.hash_, t.inner_data_size_),
              !.is_initialized_ = TRUE]

ReturnsEarly_Never(size) == FALSE

\* FixedSet::Contains: `if (inner_data_size_ == 0) return false;`
ReturnsEarly(size) == size = 0

InnerHasKey_NoCompare(t, value) ==
    t.inner_data_[CalcInnerPosition(t.hash_, value, t.inner_data_size_) + 1].assigned_

\* PerfectHashFirstLevelHashTable::HasKey (evaluated only when the size is not 0)
InnerHasKey(t, value) ==
    LET optional_value ==
            t.inner_data_[CalcInnerPosition(t.hash_, value, t.inner_data_size_) + 1]
    IN  optional_value.assigned_ /\ optional_value.value_ = value

\* FixedSet::Contains on an inner table: what it returns, whether its assert
\* holds, and whether HasKey computed a position modulo 0
InnerContains(t, value) ==
    IF ReturnsEarly(t.inner_data_size_)
    THEN [result |-> FALSE, asserted |-> t.is_initialized_, modZero |-> FALSE]
    ELSE IF t.inner_data_size_ = 0
    THEN [result |-> FALSE, asserted |-> t.is_initialized_, modZero |-> TRUE]
    ELSE [result |-> InnerHasKey(t, value), asserted |-> t.is_initialized_,
          modZero |-> FALSE]

----------------------------------------------------------------------------
(* The outer table *)

RECURSIVE SumSquares(_)
\* PerfectHashTable::TryFillingHashTable: sum_size
SumSquares(distribution) ==
    IF distribution = <<>> THEN 0
    ELSE Head(distribution) * Head(distribution) + SumSquares(Tail(distribution))

OuterAccepts_Strict(sum_size, size) == sum_size < kMemoryRepletionRatio * size

OuterAccepts_Ratio5(sum_size, size) == ~(sum_size > (kMemoryRepletionRatio + 1) * size)

\* PerfectHashTable::TryFillingHashTable: the negation of
\* `sum_size > kMemoryRepletionRatio * hashTable_.size()`
OuterAccepts(sum_size, size) == ~(sum_size > kMemoryRepletionRatio * size)

RECURSIVE PushAll(_, _, _, _)
\* PerfectHashTable::TryFillingHashTable: baskets[CalcInnerPosition(value)].push_back(value)
PushAll(bs, values, h, size) ==
    IF values = <<>> THEN bs
    ELSE LET p == CalcInnerPosition(h, Head(values), size) + 1
         IN  PushAll([bs EXCEPT ![p] = Append(@, Head(values))], Tail(values), h, size)

\* PerfectHashTable::HasKey followed by the inner Contains
OuterContains(o, tables, value) ==
    IF ReturnsEarly(o.inner_data_size_)
    THEN [result |-> FALSE, asserted |-> o.is_initialized_, modZero |-> FALSE]
    ELSE IF o.inner_data_size_ = 0
    THEN [result |-> FALSE, asserted |-> o.is_initialized_, modZero |-> TRUE]
    ELSE LET inner == InnerContains(
                 tables[CalcInnerPosition(o.hash_, value, o.inner_data_size_) + 1], value)
         IN  [result |-> inner.result,
              asserted |-> o.is_initialized_ /\ inner.asserted,
              modZero |-> inner.modZero]

----------------------------------------------------------------------------
(* The program *)

NoAnswer == [asked |-> FALSE, value |-> 0, result |-> FALSE]

Init ==
    /\ data \in Inputs
    /\ outer = [inner_data_size_ |-> 0, is_initialized_ |-> FALSE, hash_ |-> DefaultHash]
    /\ hashTable_ = <<>>
    /\ opc = "start"
    /\ baskets = <<>>
    /\ idx = 0
    /\ ipc = "idle"
    /\ answer = NoAnswer
    /\ modZero = FALSE
    /\ assertFail = FALSE
    /\ retried = [outer |-> FALSE, inner |-> FALSE]

\* main calls Initialize(data): PerfectHashTable::InitBufferAndSize and the first draw
OuterBegin(h) ==
    /\ opc = "start"
    /\ outer' = [outer EXCEPT !.inner_data_size_ = Len(data), !.hash_ = h]
    /\ hashTable_' = [i \in 1..Len(data) |->
                        IF i <= Len(hashTable_) THEN hashTable_[i] ELSE DefaultInner]
    /\ opc' = "try"
    /\ retried' = [outer |-> FALSE, inner |-> FALSE]
    /\ UNCHANGED <<data, baskets, idx, ipc, answer, modZero, assertFail>>

\* outer Initialize: `hash_ = hashFactory.GetNextHash()` in the body of the while loop
OuterDraw(h) ==
    /\ opc = "draw"
    /\ outer' = [outer EXCEPT !.hash_ = h]
    /\ opc' = "try"
    /\ UNCHANGED <<data, hashTable_, baskets, idx, ipc, answer, modZero, assertFail,
                   retried>>

\* PerfectHashTable::TryFillingHashTable up to the first inner Initialize; with
\* no bucket at all it returns true and Initialize sets is_initialized_
OuterTry ==
    /\ opc = "try"
    /\ LET distribution == CalcDistribution(data, outer.hash_, outer.inner_data_size_)
           sum_size == SumSquares(distribution)
       IN  /\ modZero' = (modZero \/ DistributionModZero(data, outer.inner_data_size_))
           /\ assertFail' = (assertFail \/
                   (OuterAccepts(sum_size, Len(hashTable_))
                       /\ Len(distribution) # Len(hashTable_)))
           /\ IF ~OuterAccepts(sum_size, Len(hashTable_))
              THEN /\ opc' = "draw"
                   /\ retried' = [retried EXCEPT !.outer = TRUE]
                   /\ UNCHANGED <<outer, baskets, idx, ipc>>
              ELSE IF Len(hashTable_) = 0
              THEN /\ opc' = "done"
                   /\ outer' = [outer EXCEPT !.is_initialized_ = TRUE]
                   /\ UNCHANGED <<baskets, idx, ipc, retried>>
              ELSE /\ opc' = "filling"
                   /\ baskets' = PushAll([i \in 1..Len(hashTable_) |-> <<>>], data,
                                         outer.hash_, outer.inner_data_size_)
                   /\ idx' = 1
                   /\ ipc' = "start"
                   /\ UNCHANGED <<outer, retried>>
    /\ UNCHANGED <<data, hashTable_, answer>>

\* hashTable_[i].Initialize(baskets[i]): the inner InitBufferAndSize and the first draw
InnerBegin(h) ==
    /\ opc = "filling"
    /\ ipc = "start"
    /\ hashTable_' = [hashTable_ EXCEPT ![idx] =
            [@ EXCEPT !.inner_data_size_ = InnerSize(Len(baskets[idx])),
                      !.inner_data_ = Resize(@, InnerSize(Len(baskets[idx]))),
                      !.hash_ = h]]
    /\ ipc' = "try"
    /\ retried' = [retried EXCEPT !.inner = FALSE]
    /\ UNCHANGED <<data, outer, opc, baskets, idx, answer, modZero, assertFail>>

\* inner Initialize: `hash_ = hashFactory.GetNextHash()` in the body of the while loop
InnerDraw(h) ==
    /\ opc = "filling"
    /\ ipc = "draw"
    /\ hashTable_' = [hashTable_ EXCEPT ![idx] = [@ EXCEPT !.hash_ = h]]
    /\ ipc' = "try"
    /\ UNCHANGED <<data, outer, opc, baskets, idx, answer, modZero, assertFail, retried>>

\* what the rest of the outer TryFillingHashTable and Initialize do once
\* hashTable_[idx].Initialize has returned
InnerReturned ==
    IF idx = Len(hashTable_)
    THEN /\ opc' = "done"
         /\ outer' = [outer EXCEPT !.is_initialized_ = TRUE]
         /\ baskets' = <<>>
         /\ idx' = 0
         /\ ipc' = "idle"
    ELSE /\ idx' = idx + 1
         /\ ipc' = "start"
         /\ UNCHANGED <<outer, opc, baskets>>

\* PerfectHashFirstLevelHashTable::TryFillingHashTable on hashTable_[idx] and,
\* when it returns true, the end of the inner Initialize
InnerTry ==
    /\ opc = "filling"
    /\ ipc = "try"
    /\ LET t == hashTable_[idx]
           distribution == CalcDistribution(baskets[idx], t.hash_, t.inner_data_size_)
       IN  /\ modZero' = (modZero \/ DistributionModZero(baskets[idx], t.inner_data_size_))
           /\ IF ~InnerNoCollision(distribution)
              THEN /\ ipc' = "draw"
                   /\ retried' = [retried EXCEPT !.inner = TRUE]
                   /\ UNCHANGED <<hashTable_, outer, opc, baskets, idx>>
              ELSE /\ hashTable_' = [hashTable_ EXCEPT ![idx] = InnerSucceeded(t, baskets[idx])]
                   /\ retried' = retried
                   /\ InnerReturned
    /\ UNCHANGED <<data, answer, assertFail>>

Contains_WritesSlot(value) ==
    /\ opc = "done"
    /\ LET r == OuterContains(outer, hashTable_, value)
       IN  /\ answer' = [asked |-> TRUE, value |-> value, result |-> r.result]
           /\ modZero' = (modZero \/ r.modZero)
           /\ assertFail' = (assertFail \/ ~r.asserted)
           /\ hashTable_' =
                 IF outer.inner_data_size_ = 0 THEN hashTable_
                 ELSE LET b == CalcInnerPosition(outer.hash_, value, outer.inner_data_size_) + 1
                          t == hashTable_[b]
                      IN  IF t.inner_data_size_ = 0 \/ r.result THEN hashTable_
                          ELSE [hashTable_ EXCEPT ![b] = [@ EXCEPT !.inner_data_ =
                                  PlaceAll(@, <<value>>, t.hash_, t.inner_data_size_)]]
    /\ UNCHANGED <<data, outer, opc, baskets, idx, ipc, retried>>

\* OperateQueries: one static_hash_table.Contains(value), after Initialize returned
Contains(value) ==
    /\ opc = "done"
    /\ LET r == OuterContains(outer, hashTable_, value)
       IN  /\ answer' = [asked |-> TRUE, value |-> value, result |-> r.result]
           /\ modZero' = (modZero \/ r.modZero)
           /\ assertFail' = (assertFail \/ ~r.asserted)
    /\ UNCHANGED <<data, outer, hashTable_, opc, baskets, idx, ipc, retried>>

Next ==
    \/ \E h \in HashFamily : OuterBegin(h)
    \/ \E h \in HashFamily : OuterDraw(h)
    \/ OuterTry
    \/ \E h \in HashFamily : InnerBegin(h)
    \/ \E h \in HashFamily : InnerDraw(h)
    \/ InnerTry
    \/ \E value \in Queries : Contains(value)

Spec == Init /\ [][Next]_vars

\* The generator keeps producing every hash of the family, and the program
\* keeps running.
FairSpec ==
    /\ Spec
    /\ WF_vars(Next)
    /\ \A h \in HashFamily : SF_vars(OuterDraw(h)) /\ SF_vars(InnerDraw(h))

----------------------------------------------------------------------------
(* Vocabulary of the properties *)

Range(s) == {s[j] : j \in 1..Len(s)}

NoRepeats(s) == \A a, b \in 1..Len(s) : a # b => s[a] # s[b]

Filled == outer.is_initialized_

\* the outer bucket (1-based) of a value under the stored outer hash
BucketOf(value) == (HashApply(outer.hash_, value) % outer.inner_data_size_) + 1

\* the slot (1-based) of a value in inner table i under that table's stored hash
SlotOf(i, value) ==
    (HashApply(hashTable_[i].hash_, value) % hashTable_[i].inner_data_size_) + 1

\* the input positions whose key falls into outer bucket i
Members(i) == {j \in 1..Len(data) : BucketOf(data[j]) = i}

\* the number of ordered pairs of input positions that share an outer bucket,
\* which is the sum over the buckets of count * count
SameBucketPairs ==
    Cardinality({pr \in (1..Len(data)) \X (1..Len(data)) :
                    BucketOf(data[pr[1]]) = BucketOf(data[pr[2]])})

RECURSIVE TotalSlots(_)
TotalSlots(k) == IF k = 0 THEN 0 ELSE Len(hashTable_[k].inner_data_) + TotalSlots(k - 1)

\* the (bucket, slot) pairs that hold key k
Holders(k) ==
    {pr \in UNION {{<<i, p>> : p \in 1..Len(hashTable_[i].inner_data_)} :
                     i \in 1..Len(hashTable_)} :
        /\ hashTable_[pr[1]].inner_data_[pr[2]].assigned_
        /\ hashTable_[pr[1]].inner_data_[pr[2]].value_ = k}

----------------------------------------------------------------------------
C2_RepeatedKeysBuildCompletes == (data = <<5, 5, 5>>) => <>Filled

(* C3: when the outer table is Filled, every inner table has exactly        *)
(* count * count slots, count being the number of input keys its bucket     *)
(* received under the committed outer hash, and all inner tables together   *)
(* have at most 4 * n slots.                                                *)
C3_MemoryBound ==
    Filled =>
        /\ \A i \in 1..Len(hashTable_) :
              /\ hashTable_[i].inner_data_size_ = Cardinality(Members(i)) * Cardinality(Members(i))
              /\ Len(hashTable_[i].inner_data_) = hashTable_[i].inner_data_size_
        /\ Len(hashTable_) = Len(data)
        /\ TotalSlots(Len(hashTable_)) <= 4 * Len(data)

\* a Filled table one of whose buckets received two keys or more
C3_FilledWithSharedBucket ==
    Filled /\ \E i \in 1..Len(hashTable_) : hashTable_[i].inner_data_size_ >= 4

(* C4: when the outer table is Filled, every input key is held by exactly   *)
(* one (bucket, slot) pair, the one the committed hashes compute; every     *)
(* occupied slot holds an input key; and two distinct keys of one bucket    *)
(* never have the same computed slot.                                       *)
C4_OnePlacePerKey ==
    Filled =>
        /\ \A k \in Range(data) : Holders(k) = {<<BucketOf(k), SlotOf(BucketOf(k), k)>>}
        /\ \A i \in 1..Len(hashTable_) : \A p \in 1..Len(hashTable_[i].inner_data_) :
              hashTable_[i].inner_data_[p].assigned_ =>
                  hashTable_[i].inner_data_[p].value_ \in Range(data)
        /\ \A i \in 1..Len(hashTable_) : \A a, b \in Members(i) :
              data[a] # data[b] => SlotOf(i, data[a]) # SlotOf(i, data[b])

\* a Filled table of four keys or more, two of them in one bucket
C4_FilledTwoKeysOneBucket ==
    Filled /\ Len(data) >= 4 /\ \E i \in 1..Len(hashTable_) : Cardinality(Members(i)) >= 2

(* C5: no position is ever computed modulo a size of 0; a table built from  *)
(* zero keys has zero slots, never has a failed attempt, and its Contains   *)
(* returns false for every query without computing a position.              *)
C5_NoPositionModuloZero ==
    /\ ~modZero
    /\ (opc = "draw" \/ retried.outer) => data # <<>>
    /\ (opc = "filling" /\ ipc \in {"try", "draw"} /\ baskets[idx] = <<>>) =>
          /\ ipc = "try"
          /\ ~retried.inner
          /\ hashTable_[idx].inner_data_size_ = 0
          /\ hashTable_[idx].inner_data_ = <<>>
    /\ Filled =>
          /\ data = <<>> => \A q \in Queries :
                OuterContains(outer, hashTable_, q) =
                    [result |-> FALSE, asserted |-> TRUE, modZero |-> FALSE]
          /\ \A i \in 1..Len(hashTable_) : Members(i) = {} =>
                /\ hashTable_[i].inner_data_ = <<>>
                /\ \A q \in Queries :
                      InnerContains(hashTable_[i], q) =
                          [result |-> FALSE, asserted |-> TRUE, modZero |-> FALSE]
    /\ (answer.asked /\ data = <<>>) => ~answer.result

\* Contains was asked for a value whose outer bucket is an empty inner table
C5_AskedInEmptyBucket ==
    /\ answer.asked
    /\ data # <<>>
    /\ hashTable_[BucketOf(answer.value)].inner_data_size_ = 0

(* C6: whenever the outer table is_initialized_, every inner table is too,  *)
(* and no assert of the program has failed (in particular none in the outer *)
(* Contains or in the inner Contains it calls).                             *)
C6_NoPartialInitialization ==
    /\ Filled => \A i \in 1..Len(hashTable_) : hashTable_[i].is_initialized_
    /\ ~assertFail

\* a Contains on a table of two buckets or more went through an inner Contains
C6_AskedThroughInnerTable ==
    answer.asked /\ Len(hashTable_) >= 2 /\ ~answer.result

(* C7: once the outer table is Filled no step (every step is then a         *)
(* Contains) changes the outer table or any inner table: hashes, sizes,     *)
(* slots and flags stay as they are; and no is_initialized_ flag, outer or  *)
(* inner, ever goes back to false.                                          *)
C7_FilledIsReadOnly ==
    [][/\ Filled => (outer' = outer /\ hashTable_' = hashTable_)
       /\ \A i \in 1..Len(hashTable_) :
             hashTable_[i].is_initialized_ =>
                 (i <= Len(hashTable_') /\ hashTable_'[i].is_initialized_)]_vars

\* Contains was called on a non-empty table and found its value
C7_AskedAndFound == answer.asked /\ answer.result /\ answer.value >= 0

(* C8: an outer attempt is accepted exactly when the sum over the buckets   *)
(* of count * count under the drawn outer hash is at most 4 * n; a rejected *)
(* attempt changes neither the outer table nor any inner table; and while   *)
(* no attempt has been accepted every inner table is as default-constructed.*)
C8_OuterAttempt ==
    /\ [](opc \in {"start", "try", "draw"} =>
             \A i \in 1..Len(hashTable_) : hashTable_[i] = DefaultInner)
    /\ [][opc = "try" =>
             IF SameBucketPairs <= 4 * Len(data)
             THEN opc' \in {"filling", "done"}
             ELSE opc' = "draw" /\ hashTable_' = hashTable_ /\ outer' = outer]_vars

\* an outer attempt over five different keys has just been rejected
C8_RejectedAttempt == opc = "draw" /\ Len(data) = 5 /\ NoRepeats(data)

(* C9: an inner attempt over the keys of a bucket (with multiplicity)       *)
(* succeeds exactly when no two elements of the bucket have the same        *)
(* computed slot; a failed attempt leaves the table unchanged with every    *)
(* slot empty; a successful one stores each key at its computed slot and    *)
(* leaves every other slot empty.                                           *)
C9_InnerAttempt ==
    [][(opc = "filling" /\ ipc = "try") =>
          LET b == baskets[idx]
              m == Len(b)
              pos(j) == (HashApply(hashTable_[idx].hash_, b[j]) % (m * m)) + 1
              after == hashTable_'[idx]
          IN  /\ Len(hashTable_[idx].inner_data_) = m * m
              /\ \A p \in 1..(m * m) : ~hashTable_[idx].inner_data_[p].assigned_
              /\ IF \A a, c \in 1..m : a # c => pos(a) # pos(c)
                 THEN /\ after.is_initialized_
                      /\ Len(after.inner_data_) = m * m
                      /\ \A p \in 1..(m * m) :
                            IF \E j \in 1..m : pos(j) = p
                            THEN \E j \in 1..m :
                                    /\ pos(j) = p
                                    /\ after.inner_data_[p] = [assigned_ |-> TRUE, value_ |-> b[j]]
                            ELSE ~after.inner_data_[p].assigned_
                 ELSE /\ ipc' = "draw"
                      /\ hashTable_' = hashTable_]_vars

\* an inner attempt over a bucket of different keys has just failed, after an
\* earlier bucket was filled
C9_FailedAfterFilledBucket ==
    /\ opc = "filling" /\ ipc = "draw" /\ NoRepeats(baskets[idx])
    /\ \E i \in 1..(idx - 1) : \E p \in 1..Len(hashTable_[i].inner_data_) :
          hashTable_[i].inner_data_[p].assigned_

(* C10: at both levels the size is set once, at the start; the hash is set  *)
(* only by the first draw and by the draw that follows a failed attempt;    *)
(* after a failed attempt the next step is a draw; is_initialized_ becomes  *)
(* true only in the step of a successful attempt, which leaves the hash     *)
(* unchanged; and the hash of a Filled table satisfies the acceptance       *)
(* condition of its level.                                                  *)
C10_RetryDriver ==
    /\ [][/\ outer.hash_' # outer.hash_ => opc \in {"start", "draw"}
          /\ outer.inner_data_size_' # outer.inner_data_size_ => opc = "start"
          /\ opc = "draw" => (opc' = "try" /\ ~Filled')
          /\ (~Filled /\ Filled') =>
                /\ outer.hash_' = outer.hash_
                /\ opc = "try" \/ (opc = "filling" /\ ipc = "try")
          /\ ipc = "draw" => (ipc' = "try" /\ ~hashTable_'[idx].is_initialized_)
          /\ \A i \in 1..Len(hashTable_) :
                LET t == hashTable_[i]
                    after == hashTable_'[i]
                IN  /\ after.hash_ # t.hash_ =>
                          (opc = "filling" /\ idx = i /\ ipc \in {"start", "draw"})
                    /\ after.inner_data_size_ # t.inner_data_size_ =>
                          (opc = "filling" /\ idx = i /\ ipc = "start")
                    /\ (~t.is_initialized_ /\ after.is_initialized_) =>
                          (opc = "filling" /\ idx = i /\ ipc = "try" /\ after.hash_ = t.hash_)
                    /\ t.is_initialized_ => after = t]_vars
    /\ [](Filled =>
            /\ SameBucketPairs <= 4 * Len(data)
            /\ \A i \in 1..Len(hashTable_) : \A a, b \in Members(i) :
                  a # b => SlotOf(i, data[a]) # SlotOf(i, data[b]))

\* a table that is Filled although the last inner Initialize had a failed attempt
C10_FilledAfterRetry == Filled /\ retried.inner /\ ~retried.outer

====
